---- MODULE Spec2Model ----
(***************************************************************************)
(* A model of gofile-downloader-folder.py: the recursive tree resolver     *)
(* (Main._parseLinks, Main._createDir, Main._cacheLink), the thread pool   *)
(* of Main._threadedDownloads and the resumable fetch of                   *)
(* Main._downloadContent.                                                  *)
(*                                                                         *)
(* A path is the sequence of names below the root download directory       *)
(* (self._root_dir): <<>> is the root itself.  Folder names and file names *)
(* are drawn from disjoint sets, so a file never sits where a directory is *)
(* wanted.  A byte of the remote file of node n at position k is the       *)
(* number 100 * n + k, so bytes of different files or positions differ.    *)
(***************************************************************************)
EXTENDS Integers, Sequences, FiniteSets, TLC

\* ------------------------------------------------------------------ bounds
MaxNodes == 4        \* nodes of a remote tree, resolver specification
MaxRunNodes == 3     \* nodes of a remote tree, whole-program specification
MaxFetchNodes == 2   \* nodes of a remote tree, specification of repeated runs
MaxSize == 1         \* bytes of a remote file, whole-program specification
MaxFetchSize == 2    \* bytes of a remote file, specifications of repeated runs
MaxWorkersBound == 2 \* largest max_workers tried
ChunkSize == 1       \* bytes of one chunk of iter_content (16384, scaled down)

DirNames == <<"d", "e">>
FileNames == <<"a", "b">>

VARIABLES
  tree,        \* the remote content tree: node id -> [kind, name, kids, size]
  maxWorkers,  \* Main.__init__'s max_workers
  dirs,        \* local directories that exist (paths)
  made,        \* local directories whose mkdir succeeded in this run
  files,       \* local files: path -> [fin, part], each a byte sequence or NoFile
  phase,       \* "resolve" | "download" | "interrupted" | "exit"
  exitCode,    \* the process's exit status, -1 while it runs
  stack,       \* the recursion of _parseLinks: frames [node, pc, idx]
  cwd,         \* the process's working directory (a path)
  manifest,    \* self._files_link_list
  visited,     \* folder nodes whose listing _parseLinks has expanded, in order
  replies,     \* the describe-content replies received so far: "ok" | "error"
  dirs0,       \* the directories that existed when the process started
  task,        \* the work items submitted so far, one per manifest entry
  queue,       \* the executor's work queue: submitted items no worker has taken
  numThreads,  \* worker threads the executor has started
  idleSem      \* the executor's _idle_semaphore

resolver == <<stack, cwd, manifest, visited, replies>>
pool == <<task, queue, numThreads, idleSem>>
vars == <<tree, maxWorkers, dirs, made, files, phase, exitCode, stack, cwd,
          manifest, visited, replies, dirs0, task, queue, numThreads, idleSem>>

\* ------------------------------------------------------------ remote trees
Root == 1
NoFile == <<-1>>

Min(S) == CHOOSE x \in S : \A y \in S : x <= y
Max(S) == CHOOSE x \in S : \A y \in S : x >= y

RECURSIVE SortAsc(_)
SortAsc(S) == IF S = {} THEN <<>> ELSE <<Min(S)>> \o SortAsc(S \ {Min(S)})

RECURSIVE SortDesc(_)
SortDesc(S) == IF S = {} THEN <<>> ELSE <<Max(S)>> \o SortDesc(S \ {Max(S)})

\* The tree of n nodes with parents par, kinds kind, name indices nm and file
\* sizes sz; a folder lists its children by ascending id, or descending when rev.
MkTree(n, par, kind, nm, sz, rev) ==
  [i \in 1..n |->
     LET ch == {j \in 2..n : par[j] = i}
     IN [kind |-> kind[i],
         name |-> IF kind[i] = "folder" THEN DirNames[nm[i]] ELSE FileNames[nm[i]],
         kids |-> IF rev THEN SortDesc(ch) ELSE SortAsc(ch),
         size |-> IF kind[i] = "folder" THEN 0 ELSE sz[i]]]

\* Every remote tree of at most maxN nodes whose files have sizes in sizes:
\* a node's parent has a smaller id, only folders have children, and the
\* root's name index is 1 (its name clashes with nothing).
Trees(maxN, sizes, orders) ==
  UNION {
    {t \in {MkTree(n, par, kind, nm, sz, rev) :
              par \in {p \in [2..n -> 1..n] : \A j \in 2..n : p[j] < j},
              kind \in [1..n -> {"file", "folder"}],
              nm \in {m \in [1..n -> 1..2] : m[1] = 1},
              sz \in [1..n -> sizes],
              rev \in orders}
         : \A i \in 1..n : t[i].kind = "file" => t[i].kids = <<>>}
    : n \in 1..maxN}

Nodes == DOMAIN tree
IsFolder(n) == tree[n].kind = "folder"
FileNodes == {n \in Nodes : ~IsFolder(n)}
FolderNodes == {n \in Nodes : IsFolder(n)}
InSeq(x, s) == \E i \in 1..Len(s) : s[i] = x
ParentOf(t, n) == CHOOSE p \in DOMAIN t : InSeq(n, t[p].kids)

\* The names from the root node down to node n.
RECURSIVE NodePath(_, _)
NodePath(t, n) ==
  IF n = Root THEN <<t[n].name>> ELSE NodePath(t, ParentOf(t, n)) \o <<t[n].name>>

IsPrefix(p, q) == Len(p) <= Len(q) /\ SubSeq(q, 1, Len(p)) = p
FolderPaths(t) == {NodePath(t, n) : n \in {m \in DOMAIN t : t[m].kind = "folder"}}
FilePaths(t) == {NodePath(t, n) : n \in {m \in DOMAIN t : t[m].kind = "file"}}

\* Sets of directories the download directory may hold before a run: a
\* directory exists only inside an existing one.
DirStates(t) ==
  {D \in SUBSET FolderPaths(t) :
     \A p \in D : \A q \in FolderPaths(t) : IsPrefix(q, p) => q \in D}

\* ------------------------------------------------------------ tree resolver
\* _createDir without its mkdir.
CreateDirSkipped(ds, p) == ds

\* Main._createDir: mkdir, and FileExistsError is passed over.
CreateDir(ds, p) == ds \cup {p}

\* The directories whose mkdir succeeded.
Created(ds, mk, p) == IF p \in ds THEN mk ELSE mk \cup {p}

\* _cacheLink putting the entry first instead of last.
CacheLinkFirst(m, dir, name, link) ==
  <<[path |-> dir \o <<name>>, filename |-> name, link |-> link]>> \o m

\* Main._cacheLink: append {path, filename, link}; the link is the node id.
CacheLink(m, dir, name, link) ==
  Append(m, [path |-> dir \o <<name>>, filename |-> name, link |-> link])

\* _parseLinks returning without its chdir(path.pardir).
ChdirNowhere(c) == c

\* chdir(path.pardir)
ChdirParent(c) == SubSeq(c, 1, Len(c) - 1)

\* for child_id in children_ids: the idx-th child visited.
ChildAt(kids, idx) == kids[idx]

Top == stack[Len(stack)]
Pop(stk) == SubSeq(stk, 1, Len(stk) - 1)
SetTop(stk, f) == [stk EXCEPT ![Len(stk)] = f]

\* The downloads begun as soon as any _parseLinks call returns.
AfterAnyReturn(stk) == "download"

\* When the outermost _parseLinks returns, __init__ goes on to _threadedDownloads.
AfterReturn(stk) == IF stk = <<>> THEN "download" ELSE "resolve"

\* die(): the message goes to stderr and exit(-1) ends the process with status 255.
DieStatus == 255

\* The status of the reply never looked at.
ReplyNeverFatal(status) == FALSE

\* line 284: a reply whose status is not "ok" is fatal.
ReplyFatal(status) == status # "ok"

\* _parseLinks, lines 269-293 and 304-305: the describe-content request and its
\* reply. A reply that is not "ok" is fatal; a folder gets its directory and the
\* process descends into it; a file (the root is a file) is cached.
ParseLinksCall ==
  /\ phase = "resolve" /\ stack # <<>> /\ Top.idx = 0
  /\ \E status \in {"ok", "error"} :
       LET n == Top.node
           d == cwd \o <<tree[n].name>>
       IN /\ replies' = Append(replies, status)
          /\ IF ReplyFatal(status)
             THEN /\ phase' = "exit" /\ exitCode' = DieStatus
                  /\ UNCHANGED <<dirs, made, cwd, stack, manifest, visited>>
             ELSE IF IsFolder(n)
             THEN /\ dirs' = CreateDir(dirs, d)
                  /\ made' = Created(dirs, made, d)
                  /\ cwd' = d
                  /\ stack' = SetTop(stack, [node |-> n, idx |-> 1])
                  /\ visited' = Append(visited, n)
                  /\ UNCHANGED <<phase, exitCode, manifest>>
             ELSE /\ manifest' = CacheLink(manifest, cwd, tree[n].name, n)
                  /\ stack' = Pop(stack)
                  /\ phase' = AfterReturn(Pop(stack))
                  /\ UNCHANGED <<dirs, made, cwd, exitCode, visited>>
  /\ UNCHANGED <<tree, maxWorkers, files, dirs0, pool>>

\* _parseLinks, lines 295-301: one turn of the loop over the children.
ParseLinksChild ==
  /\ phase = "resolve" /\ stack # <<>>
  /\ Top.idx >= 1 /\ Top.idx <= Len(tree[Top.node].kids)
  /\ LET c == ChildAt(tree[Top.node].kids, Top.idx)
         next == SetTop(stack, [node |-> Top.node, idx |-> Top.idx + 1])
     IN IF IsFolder(c)
        THEN /\ stack' = Append(next, [node |-> c, idx |-> 0])
             /\ UNCHANGED manifest
        ELSE /\ stack' = next
             /\ manifest' = CacheLink(manifest, cwd, tree[c].name, c)
  /\ UNCHANGED <<tree, maxWorkers, dirs, made, files, phase, exitCode, cwd, visited>>
  /\ UNCHANGED <<replies, dirs0, pool>>

\* _parseLinks, line 303: the loop is over, back to the parent directory.
ParseLinksReturn ==
  /\ phase = "resolve" /\ stack # <<>>
  /\ Top.idx > Len(tree[Top.node].kids)
  /\ cwd' = ChdirParent(cwd)
  /\ stack' = Pop(stack)
  /\ phase' = AfterReturn(Pop(stack))
  /\ UNCHANGED <<tree, maxWorkers, dirs, made, files, exitCode, manifest, visited>>
  /\ UNCHANGED <<replies, dirs0, pool>>

\* ------------------------------------------------------------- the server
None == -1
Ok == 200
PartialContent == 206
Forbidden == 403
HardErrors == {403, 404, 405, 500}

\* The bytes of the remote file of node n.
Content(n) == [k \in 1..tree[n].size |-> 100 * n + k]

\* What fetch-file may answer for node n, asked with or without a Range header
\* "bytes=K-": [status, total, start], the total as the Content-Length (200)
\* or the Content-Range's total (206) and None when the header is absent, the
\* body being the file's bytes after the first `start`. The server declares the
\* true size, may refuse (403), may ignore a Range header (200, the whole file),
\* honours a satisfiable range with 206 and answers 416 (Range Not Satisfiable)
\* to one that starts at or past the end.
Responses(n, rng, K) ==
  LET N == tree[n].size IN
  {[status |-> Forbidden, total |-> None, start |-> 0],
   [status |-> Ok, total |-> N, start |-> 0]}
  \cup (IF rng
        THEN IF K < N
             THEN {[status |-> PartialContent, total |-> N, start |-> K]}
             ELSE {[status |-> 416, total |-> None, start |-> 0]}
        ELSE {[status |-> Ok, total |-> None, start |-> 0]})

\* --------------------------------------------------------- the thread pool
NewTask ==
  [pc |-> "queued", partSize |-> 0, range |-> FALSE, hasSize |-> None,
   pos |-> 0, i |-> 0, wrote |-> 0, reqs |-> 0, runs |-> 0,
   out |-> "none", raised |-> FALSE, handle |-> "none",
   status |-> None, ownPrefix |-> FALSE, shown |-> None]

Active(t) == t.pc \in {"wait", "stream"}
Running == Cardinality({e \in 1..Len(task) : Active(task[e])})

\* A worker thread started for every item submitted while none is idle.
ThreadsUnbounded(nt, idle, mw) == IF idle = 0 THEN nt + 1 ELSE nt

\* ThreadPoolExecutor._adjust_thread_count: a new worker thread is started
\* only while fewer than max_workers exist (and no worker is idle).
ThreadsAfterSubmit(nt, idle, mw) == IF idle = 0 /\ nt < mw THEN nt + 1 ELSE nt

\* A worker thread lost to the exception its item raised.
ThreadsLostToRaise(nt, raised) == IF raised THEN nt - 1 ELSE nt

\* The worker threads after a work item has ended: the executor keeps what the
\* item raised in its future, and the worker goes on to the next item.
ThreadsAfterTask(nt, raised) == nt

\* _threadedDownloads, lines 84-85: submit the next manifest entry.
Submit ==
  /\ phase = "download" /\ Len(task) < Len(manifest)
  /\ task' = Append(task, NewTask)
  /\ queue' = Append(queue, Len(task) + 1)
  /\ numThreads' = ThreadsAfterSubmit(numThreads, idleSem, maxWorkers)
  /\ idleSem' = IF idleSem > 0 THEN idleSem - 1 ELSE 0
  /\ UNCHANGED <<tree, maxWorkers, dirs, made, files, phase, exitCode, dirs0, resolver>>

\* ------------------------------------------------------- _downloadContent
\* The worker threads run while the main thread is inside the with block of
\* _threadedDownloads, and go on running after a KeyboardInterrupt has taken
\* the main thread out of it: the executor's threads are joined, not stopped.
Downloading == phase \in {"download", "interrupted"}

PathOf(e) == manifest[e].path
NodeOf(e) == manifest[e].link
Exists(f) == f # NoFile

\* No target taken as already downloaded.
NeverThere(f) == FALSE

\* lines 140-144: the target is there and not empty.
AlreadyThere(f) == Exists(f.fin) /\ Len(f.fin) > 0

\* lines 165-168: the resume offset.
PartSize(f) == IF Exists(f.part) THEN Len(f.part) ELSE 0

\* Only the hard error statuses end the fetch, whatever the offset.
RejectedOnHardErrorOnly(status, partSize) == status \in HardErrors

\* lines 175-177: the statuses that end this file's fetch.
Rejected(status, partSize) ==
  \/ status \in HardErrors
  \/ partSize = 0 /\ status # Ok
  \/ partSize > 0 /\ status # PartialContent

\* The marker holds the first bytes of node n's own file, as a fetch of it
\* that broke off has left them.
OwnPrefix(f, n) ==
  /\ Exists(f.part) /\ Len(f.part) <= tree[n].size
  /\ f.part = SubSeq(Content(n), 1, Len(f.part))

\* A worker takes the head of the queue and runs _downloadContent up to the
\* request (lines 140-174): an existing non-empty target is skipped with no
\* request; otherwise the resume offset is read and the GET is sent.
Begin(e) ==
  /\ Downloading /\ queue # <<>> /\ e = Head(queue)
  /\ Running < numThreads
  /\ queue' = Tail(queue)
  /\ LET f == files[PathOf(e)] IN
     IF AlreadyThere(f)
     THEN /\ task' = [task EXCEPT ![e].pc = "end", ![e].out = "skipped",
                                  ![e].runs = @ + 1]
          /\ idleSem' = idleSem + 1
          /\ numThreads' = ThreadsAfterTask(numThreads, FALSE)
     ELSE /\ task' = [task EXCEPT ![e].pc = "wait", ![e].runs = @ + 1,
                                  ![e].partSize = PartSize(f),
                                  ![e].range = Exists(f.part),
                                  ![e].ownPrefix = OwnPrefix(f, NodeOf(e)),
                                  ![e].reqs = @ + 1]
          /\ UNCHANGED <<idleSem, numThreads>>
  /\ UNCHANGED <<tree, maxWorkers, dirs, made, files, phase, exitCode, dirs0,
                 resolver>>

\* open(filename, 'ab'): the marker is created empty when it is not there.
OpenAppend(f) == IF Exists(f.part) THEN f ELSE [f EXCEPT !.part = <<>>]

\* The reply to the GET (lines 174-201). No reply (a connection error or a
\* timeout), a rejected status and a missing size all reach the finally block
\* with has_size = None, where int(None), or getsize of a marker that is not
\* there, raises; otherwise the marker is opened for appending.
Respond(e) ==
  /\ Downloading /\ e \in 1..Len(task) /\ task[e].pc = "wait"
  /\ \E r \in Responses(NodeOf(e), task[e].range, task[e].partSize)
             \cup {[status |-> None, total |-> None, start |-> 0]} :
       IF r.status = None
       THEN /\ task' = [task EXCEPT ![e].pc = "end", ![e].raised = TRUE]
            /\ idleSem' = idleSem + 1
            /\ numThreads' = ThreadsAfterTask(numThreads, TRUE)
            /\ UNCHANGED files
       ELSE IF Rejected(r.status, task[e].partSize)
       THEN /\ task' = [task EXCEPT ![e].pc = "end", ![e].out = "status",
                                    ![e].status = r.status, ![e].raised = TRUE]
            /\ idleSem' = idleSem + 1
            /\ numThreads' = ThreadsAfterTask(numThreads, TRUE)
            /\ UNCHANGED files
       ELSE IF r.total = None
       THEN /\ task' = [task EXCEPT ![e].pc = "end", ![e].out = "nosize",
                                    ![e].status = r.status, ![e].raised = TRUE]
            /\ idleSem' = idleSem + 1
            /\ numThreads' = ThreadsAfterTask(numThreads, TRUE)
            /\ UNCHANGED files
       ELSE /\ task' = [task EXCEPT ![e].pc = "stream", ![e].hasSize = r.total,
                                    ![e].status = r.status,
                                    ![e].pos = r.start, ![e].handle = "part"]
            /\ files' = [files EXCEPT ![PathOf(e)] = OpenAppend(@)]
            /\ UNCHANGED <<idleSem, numThreads>>
  /\ UNCHANGED <<tree, maxWorkers, dirs, made, phase, exitCode, dirs0, resolver,
                 queue>>

\* handler.write(chunk): the bytes go to the end of the file the handle was
\* opened on, which a rename by another fetch of the same path has since made
\* the target ("fin") or, renamed over, a file without a name ("lost").
WriteChunk(f, handle, chunk) ==
  IF handle = "part" /\ Exists(f.part) THEN [f EXCEPT !.part = @ \o chunk]
  ELSE IF handle = "fin" /\ Exists(f.fin) THEN [f EXCEPT !.fin = @ \o chunk]
  ELSE f

ChunkLen(rest) == IF rest < ChunkSize THEN rest ELSE ChunkSize

\* lines 206 and 226: the bytes-transferred figure of the progress message,
\* from the offset, the index i of enumerate and the length of this chunk.
Progress(partSize, i, len) == partSize + i * len

\* One turn of the loop over iter_content (lines 205-229).
Chunk(e) ==
  /\ Downloading /\ e \in 1..Len(task) /\ task[e].pc = "stream"
  /\ task[e].pos < tree[NodeOf(e)].size
  /\ LET n == ChunkLen(tree[NodeOf(e)].size - task[e].pos)
         chunk == SubSeq(Content(NodeOf(e)), task[e].pos + 1, task[e].pos + n)
     IN /\ files' = [files EXCEPT ![PathOf(e)] = WriteChunk(@, task[e].handle, chunk)]
        /\ task' = [task EXCEPT ![e].pos = @ + n, ![e].i = @ + 1, ![e].wrote = @ + n,
                                ![e].shown = Progress(task[e].partSize, task[e].i, n)]
  /\ UNCHANGED <<tree, maxWorkers, dirs, made, phase, exitCode, dirs0, resolver,
                 queue, numThreads, idleSem>>

\* The marker moved whatever its size.
CompleteAnySize(f, total) == Exists(f.part)

\* lines 231 and 237: the marker's size is the declared total, so it is moved
\* to the target.
Complete(f, total) == Exists(f.part) /\ Len(f.part) = total
Move(f) == [fin |-> f.part, part |-> NoFile]

\* The handles other fetches hold on the path's files after a move.
AfterMove(h) == IF h = "part" THEN "fin" ELSE IF h = "fin" THEN "lost" ELSE h

\* The finally block (lines 230-237) of fetch e, its marker closed; exc says
\* that an exception is on its way out of the try block. getsize of a marker
\* that is not there raises.
Finalize(e, exc) ==
  LET p == PathOf(e)
      f == files[p]
  IN IF Complete(f, task[e].hasSize)
     THEN /\ files' = [files EXCEPT ![p] = Move(f)]
          /\ task' = [x \in 1..Len(task) |->
                        IF x = e
                        THEN [task[e] EXCEPT !.pc = "end", !.out = "done",
                                             !.handle = "none", !.raised = exc]
                        ELSE IF PathOf(x) = p
                        THEN [task[x] EXCEPT !.handle = AfterMove(@)]
                        ELSE task[x]]
     ELSE /\ UNCHANGED files
          /\ task' = [task EXCEPT ![e].pc = "end", ![e].handle = "none",
                                  ![e].raised = exc \/ ~Exists(f.part)]

\* The body is over: the with blocks close and the finally block runs.
StreamEnd(e) ==
  /\ Downloading /\ e \in 1..Len(task) /\ task[e].pc = "stream"
  /\ task[e].pos = tree[NodeOf(e)].size
  /\ Finalize(e, FALSE)
  /\ idleSem' = idleSem + 1
  /\ numThreads' = ThreadsAfterTask(numThreads, task'[e].raised)
  /\ UNCHANGED <<tree, maxWorkers, dirs, made, phase, exitCode, dirs0, resolver,
                 queue>>

\* The connection breaks before the body is over: iter_content raises, the
\* with blocks close and the finally block runs.
StreamError(e) ==
  /\ Downloading /\ e \in 1..Len(task) /\ task[e].pc = "stream"
  /\ task[e].pos < tree[NodeOf(e)].size
  /\ Finalize(e, TRUE)
  /\ idleSem' = idleSem + 1
  /\ numThreads' = ThreadsAfterTask(numThreads, TRUE)
  /\ UNCHANGED <<tree, maxWorkers, dirs, made, phase, exitCode, dirs0, resolver,
                 queue>>

\* The with block of _threadedDownloads ends (shutdown(wait=True)) once every
\* item is submitted and every worker is through; __init__ returns and the
\* script ends with status 0.
Finish ==
  /\ phase = "download" /\ Len(task) = Len(manifest)
  /\ \A e \in 1..Len(task) : task[e].pc = "end"
  /\ phase' = "exit" /\ exitCode' = 0
  /\ UNCHANGED <<tree, maxWorkers, dirs, made, files, dirs0, resolver, pool>>

\* The user interrupts the download phase: KeyboardInterrupt is raised in the
\* main thread, in the loop of submits or in the join of the executor's
\* shutdown. No further entry is submitted; the worker threads are not told.
Interrupt ==
  /\ phase = "download"
  /\ phase' = "interrupted"
  /\ UNCHANGED <<tree, maxWorkers, dirs, made, files, exitCode, dirs0, resolver, pool>>

\* lines 332-333: exit(1), which ends the process once the worker threads,
\* joined at interpreter shutdown, have run every submitted item to its end.
InterruptedExit ==
  /\ phase = "interrupted"
  /\ \A e \in 1..Len(task) : task[e].pc = "end"
  /\ phase' = "exit" /\ exitCode' = 1
  /\ UNCHANGED <<tree, maxWorkers, dirs, made, files, dirs0, resolver, pool>>

\* The program is started again in the same download directory.
Rerun ==
  /\ phase = "exit"
  /\ phase' = "resolve" /\ exitCode' = -1
  /\ stack' = <<[node |-> Root, idx |-> 0]>>
  /\ cwd' = <<>> /\ manifest' = <<>> /\ visited' = <<>> /\ made' = {}
  /\ replies' = <<>>
  /\ task' = <<>> /\ queue' = <<>> /\ numThreads' = 0 /\ idleSem' = 0
  /\ dirs0' = dirs
  /\ UNCHANGED <<tree, maxWorkers, dirs, files>>

\* Main.__init__, lines 61-70, before the first _parseLinks call.
InitControl ==
  /\ phase = "resolve" /\ exitCode = -1
  /\ stack = <<[node |-> Root, idx |-> 0]>>
  /\ cwd = <<>> /\ manifest = <<>> /\ visited = <<>> /\ made = {}
  /\ replies = <<>>
  /\ task = <<>> /\ queue = <<>> /\ numThreads = 0 /\ idleSem = 0

\* The resolver alone, over every tree of at most MaxNodes nodes and every set
\* of directories already there.
InitResolve ==
  /\ tree \in Trees(MaxNodes, {1}, BOOLEAN)
  /\ maxWorkers = 1
  /\ dirs \in DirStates(tree) /\ dirs0 = dirs
  /\ files = [p \in FilePaths(tree) |-> [fin |-> NoFile, part |-> NoFile]]
  /\ InitControl

NextResolve == ParseLinksCall \/ ParseLinksChild \/ ParseLinksReturn

SpecResolve == InitResolve /\ [][NextResolve]_vars

\* The program started in an empty download directory, for the trees of at
\* most maxN nodes with files of the sizes in sizes.
InitRun(maxN, sizes) ==
  /\ tree \in Trees(maxN, sizes, {FALSE})
  /\ maxWorkers \in 1..MaxWorkersBound
  /\ dirs = {} /\ dirs0 = {}
  /\ files = [p \in FilePaths(tree) |-> [fin |-> NoFile, part |-> NoFile]]
  /\ InitControl

\* The whole program, run once.
Init == InitRun(MaxRunNodes, 0..MaxSize)

Step(e) == Begin(e) \/ Respond(e) \/ Chunk(e) \/ StreamEnd(e) \/ StreamError(e)

Fetch == \E e \in 1..Len(manifest) : Step(e)

Next ==
  ParseLinksCall \/ ParseLinksChild \/ ParseLinksReturn \/ Submit \/ Fetch \/ Finish

Spec == Init /\ [][Next]_vars

\* The whole program under the scheduling the code relies on: the process is
\* not stopped from outside, its threads keep running, and a request is
\* answered or times out (timeout=(9, 27)), so while some step is possible a
\* step is taken. Every file has MaxSize bytes.
InitFair == InitRun(MaxRunNodes, {MaxSize})

FairSpec == InitFair /\ [][Next]_vars /\ WF_vars(Next)

\* The whole program started again and again in the same download directory.
NextRerun == Next \/ Rerun

InitRerun == InitRun(MaxRunNodes, 0..MaxFetchSize)

SpecRerun == InitRerun /\ [][NextRerun]_vars

\* The same over the trees of at most MaxFetchNodes nodes, which hold at most
\* one file.
InitFetch == InitRun(MaxFetchNodes, 0..MaxFetchSize)

SpecFetch == InitFetch /\ [][NextRerun]_vars

\* The whole program, run once, the user free to interrupt the download phase.
NextInterrupt == Next \/ Interrupt \/ InterruptedExit

SpecInterrupt == Init /\ [][NextInterrupt]_vars

\* The replies of a service that is up: every describe-content reply is "ok".
ListingOk == \A i \in 1..Len(replies) : replies[i] = "ok"

\* The responses of a fetch-file server that honours HTTP range semantics and
\* a network that holds: every request is answered, never with 403, a request
\* with a Range header never with 200, a 200 always with its Content-Length,
\* and every body arrives whole.
ServerHonours ==
  \A e \in 1..Len(task) :
    /\ task[e].status # Forbidden
    /\ ~(task[e].status = Ok /\ task[e].range)
    /\ task[e].out # "nosize"
    /\ ~(task[e].pc = "end" /\ task[e].reqs > 0 /\ task[e].status = None)
    /\ ~(/\ task[e].pc = "end" /\ task[e].hasSize # None
         /\ task[e].pos < tree[NodeOf(e)].size)

\* The markers a fetch of node n that broke off leaves behind: none, an empty
\* one, or the first bytes of the file short of the whole.
MarkersLeft(n) ==
  {NoFile} \cup {SubSeq(Content(n), 1, k) : k \in 0..(tree[n].size - 1)}

\* The program started in a download directory that earlier runs have left:
\* the directories are there, no file is finished, and a file may have a marker.
InitResume ==
  /\ tree \in Trees(MaxFetchNodes, 0..MaxFetchSize, {FALSE})
  /\ maxWorkers \in 1..MaxWorkersBound
  /\ dirs = FolderPaths(tree) /\ dirs0 = dirs
  /\ files \in [FilePaths(tree) -> [fin : {NoFile}, part : UNION {MarkersLeft(n) : n \in FileNodes}]]
  /\ \A n \in FileNodes : files[NodePath(tree, n)].part \in MarkersLeft(n)
  /\ InitControl

ResolveOk == ParseLinksCall /\ ListingOk'
FetchHonoured == Fetch /\ ServerHonours'

\* The program started again and again against the service that is up and the
\* server that honours ranges.
NextResume ==
  \/ ResolveOk \/ ParseLinksChild \/ ParseLinksReturn
  \/ Submit \/ FetchHonoured \/ Finish \/ Rerun

\* The user starts the program again whenever it has ended, its threads keep
\* running, and every request is answered: while a step is possible, a step
\* is taken.
SpecResume == InitResume /\ [][NextResume]_vars /\ WF_vars(NextResume)

\* ---------------------------------------------------------------- claims
Resolved == phase = "download"
Links(m) == [i \in 1..Len(m) |-> m[i].link]

\* The leaf files below node n in depth-first pre-order of the remote listing.
RECURSIVE PreOrder(_, _)
RECURSIVE PreOrderAll(_, _)
PreOrder(t, n) ==
  IF t[n].kind = "file" THEN <<n>> ELSE PreOrderAll(t, t[n].kids)
PreOrderAll(t, ks) ==
  IF ks = <<>> THEN <<>> ELSE PreOrder(t, Head(ks)) \o PreOrderAll(t, Tail(ks))

\* C1: when the traversal has returned, the manifest lists the leaf files in
\* exactly the depth-first pre-order of the remote listing (children in the
\* order of the child-id list, a sub-folder's files at the sub-folder's place,
\* each file once), and while it runs the manifest is a prefix of that order.
C1_ManifestIsPreOrder ==
  /\ IsPrefix(Links(manifest), PreOrder(tree, Root))
  /\ Resolved => Links(manifest) = PreOrder(tree, Root)

\* A finished traversal where a file of a sub-folder comes before a file of
\* its parent listed after the sub-folder, the ids not in listing order.
C1_Witness ==
  /\ Resolved /\ Len(manifest) >= 2
  /\ \E i \in 1..Len(manifest) - 1 :
       /\ manifest[i].link > manifest[i + 1].link
       /\ Len(manifest[i].path) > Len(manifest[i + 1].path)

VisitedSet == {visited[i] : i \in 1..Len(visited)}
VisitedPaths == {NodePath(tree, n) : n \in VisitedSet}

\* C2 as stated: when the traversal has returned, the directories it created
\* are the mirrored paths of the folders it visited, one directory per visited
\* folder.
C2_OneDirCreatedPerFolder ==
  Resolved => /\ made = VisitedPaths
              /\ Cardinality(made) = Len(visited)

\* C2 as amended: when the traversal has returned, every folder node was
\* visited once and no file node was, the mirrored directory of every visited
\* folder exists, and the directories the traversal created are exactly the
\* mirrored paths of visited folders that did not exist before the run.
C2_DirsMirrorFolders ==
  Resolved => /\ VisitedSet = FolderNodes /\ Len(visited) = Cardinality(FolderNodes)
              /\ VisitedPaths \subseteq dirs
              /\ dirs = dirs0 \cup VisitedPaths
              /\ made = VisitedPaths \ dirs0

\* A finished traversal that met two folders of one name under one parent and
\* a directory that was already there.
C2_Witness ==
  /\ Resolved /\ dirs0 # {}
  /\ \E m, n \in VisitedSet : m # n /\ NodePath(tree, m) = NodePath(tree, n)
  /\ made # {}

\* C3: the traversal and the download phase never overlap: an entry is
\* submitted or fetched only when the whole recursive traversal has returned,
\* and once an entry has been submitted the manifest no longer changes.
C3_PhasesDoNotOverlap ==
  [][/\ task' # <<>> => stack' = <<>> /\ phase' # "resolve"
     /\ task # <<>> => manifest' = manifest]_vars

\* A fetch is streaming, a second entry of the manifest still to be taken.
C3_Witness ==
  /\ Len(manifest) >= 2 /\ Len(visited) >= 1
  /\ \E e \in 1..Len(task) : task[e].pc = "stream"

Failed == \E i \in 1..Len(replies) : replies[i] # "ok"

\* C4: once a describe-content reply, for the root or for a nested folder, has
\* reported a non-success status, the process has ended with a non-zero exit
\* status, that reply is the last one, and no entry is submitted or fetched.
C4_ListingFailureIsFatal ==
  Failed => /\ phase = "exit" /\ exitCode # 0 /\ exitCode # -1
            /\ replies[Len(replies)] # "ok"
            /\ \A i \in 1..Len(replies) - 1 : replies[i] = "ok"
            /\ task = <<>> /\ queue = <<>>

\* The listing of a nested folder failed after a file had been appended.
C4_Witness ==
  /\ Failed /\ Len(replies) >= 2 /\ Len(manifest) >= 1 /\ phase = "exit"

\* C5: a fetch that starts when its target exists with size > 0 ends in that
\* step: it sends no request, reports the file as skipped and leaves every
\* local file, the target and the .part marker among them, as it was.
C5_ExistingTargetSkipped ==
  [][\A e \in 1..Len(task) :
       (/\ e <= Len(task') /\ task[e].pc = "queued" /\ task'[e].pc # "queued"
        /\ files[PathOf(e)].fin # NoFile /\ Len(files[PathOf(e)].fin) > 0)
       => (/\ files' = files /\ task'[e].pc = "end"
           /\ task'[e].reqs = 0 /\ task'[e].out = "skipped")]_vars

\* A run after the one that downloaded the file has skipped it.
C5_Witness ==
  \E e \in 1..Len(task) :
    /\ task[e].out = "skipped" /\ task[e].reqs = 0
    /\ files[PathOf(e)].fin = Content(NodeOf(e)) /\ tree[NodeOf(e)].size > 0

\* C6 as stated: a fetch that found the first K bytes of its file in the
\* marker, sent the range request, got 206 and reported the file done has
\* written exactly N - K bytes and left the target equal to the remote file.
C6_ResumedEqualsFull ==
  \A e \in 1..Len(task) :
    (task[e].out = "done" /\ task[e].ownPrefix /\ task[e].status = PartialContent)
    => (/\ files[PathOf(e)].fin = Content(NodeOf(e))
        /\ task[e].wrote = tree[NodeOf(e)].size - task[e].partSize)

\* C7 as stated: while or after a fetch that obtained a declared total, the
\* marker of its path is not longer than that total.
C7_MarkerWithinTotal ==
  \A e \in 1..Len(task) :
    (task[e].hasSize # None /\ files[PathOf(e)].part # NoFile)
    => Len(files[PathOf(e)].part) <= task[e].hasSize

\* No two entries of the manifest have the same local path.
UniquePaths ==
  \A d, e \in 1..Len(manifest) : d # e => manifest[d].path # manifest[e].path

\* C6 and C7 where every path belongs to one entry of the manifest.
C6_ResumedEqualsFullOnOwnPath == UniquePaths => C6_ResumedEqualsFull
C7_MarkerWithinTotalOnOwnPath == UniquePaths => C7_MarkerWithinTotal

\* C8: the step that ends a fetch's stream, normally or by an exception, moves
\* the marker to the target and reports done when the marker's size is the
\* declared total; otherwise it changes no file (the marker stays as written,
\* no target appears) and does not report done.
C8_FinalizeOnExactSize ==
  [][\A e \in 1..Len(task) :
       (e <= Len(task') /\ task[e].pc = "stream" /\ task'[e].pc = "end")
       => LET f == files[PathOf(e)] IN
          IF f.part # NoFile /\ Len(f.part) = task[e].hasSize
          THEN /\ files' = [files EXCEPT ![PathOf(e)] = [fin |-> f.part, part |-> NoFile]]
               /\ task'[e].out = "done"
          ELSE /\ files' = files
               /\ task'[e].out # "done"]_vars

\* A stream broke off with fewer bytes written than declared: the marker is
\* there with those bytes, there is no target and nothing was reported.
C8_Witness ==
  \E e \in 1..Len(task) :
    /\ task[e].pc = "end" /\ task[e].hasSize # None /\ task[e].out = "none"
    /\ task[e].wrote >= 1
    /\ files[PathOf(e)].part # NoFile
    /\ Len(files[PathOf(e)].part) < task[e].hasSize
    /\ files[PathOf(e)].fin = NoFile

\* C9: at most max_workers fetches are active at any moment.
C9_AtMostMaxWorkersActive ==
  Cardinality({e \in 1..Len(task) : task[e].pc \in {"wait", "stream"}}) <= maxWorkers

\* As many fetches as max_workers are active and an entry waits in the queue.
C9_Witness ==
  /\ Cardinality({e \in 1..Len(task) : task[e].pc \in {"wait", "stream"}}) = maxWorkers
  /\ queue # <<>> /\ Len(manifest) > maxWorkers

\* C10: every entry of the manifest is submitted at most once and fetched at
\* most once, and once the download phase has begun every entry's fetch
\* starts, whatever becomes of the other fetches.
C10_EveryEntryFetchedOnce ==
  /\ [](/\ Len(task) <= Len(manifest)
        /\ \A e \in 1..Len(task) : task[e].runs <= 1)
  /\ (phase = "download")
       ~> (/\ Len(task) = Len(manifest)
           /\ \A e \in 1..Len(task) : task[e].runs = 1)

\* With one worker, a fetch has started after an earlier one raised.
C10_Witness ==
  /\ maxWorkers = 1
  /\ \E d, e \in 1..Len(task) :
       d < e /\ task[d].pc = "end" /\ task[d].raised /\ task[e].runs = 1

\* The local files after entry e of the manifest has been fetched alone, its
\* request answered in full, in the files F: an existing non-empty target is
\* skipped, otherwise the whole remote file becomes the target.
FetchedAlone(F, e) ==
  IF AlreadyThere(F[PathOf(e)]) THEN F
  ELSE [F EXCEPT ![PathOf(e)] = [fin |-> Content(NodeOf(e)), part |-> NoFile]]

\* The local files after the first k entries have been fetched one after the
\* other from an empty download directory, as a single worker does it.
RECURSIVE OneAfterTheOther(_)
OneAfterTheOther(k) ==
  IF k = 0 THEN [p \in DOMAIN files |-> [fin |-> NoFile, part |-> NoFile]]
  ELSE FetchedAlone(OneAfterTheOther(k - 1), k)

\* Every request of the run was answered with 200, the true size and the
\* whole body.
AnsweredInFull ==
  \A e \in 1..Len(task) :
    \/ task[e].out = "skipped"
    \/ /\ task[e].pc = "end" /\ task[e].status = Ok
       /\ task[e].hasSize = tree[NodeOf(e)].size
       /\ task[e].pos = tree[NodeOf(e)].size

\* C11 as stated, for the server that answers every request in full: when the
\* run has ended, the manifest is the pre-order of the tree and the local
\* files are those a single worker leaves, whatever the concurrency bound and
\* the interleaving of the fetches were.
C11_FilesIndependentOfSchedule ==
  (phase = "exit" /\ exitCode = 0 /\ AnsweredInFull)
  => /\ Links(manifest) = PreOrder(tree, Root)
     /\ files = OneAfterTheOther(Len(manifest))

\* C11 where every path belongs to one entry of the manifest.
C11_FilesIndependentOfScheduleOnOwnPath ==
  UniquePaths => C11_FilesIndependentOfSchedule

\* C11 for a single worker.
C11_FilesOfOneWorker == maxWorkers = 1 => C11_FilesIndependentOfSchedule

\* C12 as stated: every entry of the manifest has a local path of its own, and
\* no two fetches hold the marker of one path open for appending at once.
C12_PathsAreExclusive ==
  /\ \A d, e \in 1..Len(manifest) : d # e => manifest[d].path # manifest[e].path
  /\ \A d, e \in 1..Len(task) :
       (d # e /\ task[d].pc = "stream" /\ task[e].pc = "stream")
       => PathOf(d) # PathOf(e)

\* C13 as stated: a fetch that has ended has reported its file as done or as
\* skipped, or has printed a diagnostic for it (the status, or the missing
\* size); none ends with nothing said.
C13_NoSilentFailure ==
  \A e \in 1..Len(task) :
    task[e].pc = "end" => task[e].out \in {"done", "skipped", "status", "nosize"}

\* C14 as stated: once the interruption has reached the program, no fetch
\* writes a further chunk and no local file grows.
C14_NoChunkAfterInterrupt ==
  [][phase = "interrupted"
     => /\ \A e \in 1..Len(task) : e <= Len(task') /\ task'[e].wrote = task[e].wrote
        /\ \A p \in DOMAIN files :
             files'[p].part # NoFile /\ files[p].part # NoFile
             => Len(files'[p].part) <= Len(files[p].part)]_vars

\* The part of C14 the code keeps: when the interrupted process has ended,
\* every fetch that was begun has closed its marker, and its status is 1.
C14_InterruptedExitClosesMarkers ==
  (phase = "exit" /\ exitCode = 1)
  => \A e \in 1..Len(task) : task[e].pc = "end" /\ task[e].handle = "none"

\* C15 as stated: a fetch that has sent its request sent a Range header
\* exactly when its resume offset was greater than 0, and with offset 0 a
\* response of status 200 was not rejected for its status.
C15_RangeOnlyWhenOffsetPositive ==
  \A e \in 1..Len(task) :
    task[e].reqs > 0
    => /\ task[e].range <=> task[e].partSize > 0
       /\ (task[e].partSize = 0 /\ task[e].status = Ok) => task[e].out # "status"

\* The part of C15 the code keeps: the Range header is sent exactly when the
\* marker was there, and the offset is the marker's size or 0.
C15_RangeWhenMarkerExists ==
  [][\A e \in 1..Len(task) :
       (e <= Len(task') /\ task[e].pc = "queued" /\ task'[e].pc = "wait")
       => LET f == files[PathOf(e)] IN
          /\ task'[e].range <=> f.part # NoFile
          /\ task'[e].partSize = IF f.part # NoFile THEN Len(f.part) ELSE 0]_vars

C17_ProgressIsBytesSoFar ==
  \A e \in 1..Len(task) :
    task[e].i > 0 => task[e].shown = task[e].partSize + task[e].wrote

\* What the code prints: the offset plus the number of earlier chunks times
\* the length of the chunk just written, which is never more than the bytes
\* written before this chunk's own.
C17_ProgressLagsOneChunk ==
  \A e \in 1..Len(task) :
    task[e].i > 0 => /\ task[e].shown < task[e].partSize + task[e].wrote
                     /\ task[e].shown >= task[e].partSize

\* C18: every entry of the manifest has as its path the names of the file's
\* ancestor folders from the root folder down, then the file's own name, below
\* the download directory; a file listed after a sub-folder is no exception,
\* and when the traversal has returned the working directory is the download
\* directory again.
C18_PathMirrorsAncestors ==
  /\ \A i \in 1..Len(manifest) :
       /\ manifest[i].path = NodePath(tree, manifest[i].link)
       /\ manifest[i].filename = tree[manifest[i].link].name
  /\ Resolved => cwd = <<>>

\* A finished traversal with a file of the root folder listed after a
\* sub-folder that holds a file: the later entry lies in the root folder's
\* directory, one level above the earlier one.
C18_Witness ==
  /\ Resolved
  /\ \E i, j \in 1..Len(manifest) :
       /\ i < j
       /\ ParentOf(tree, manifest[j].link) = Root
       /\ ParentOf(tree, manifest[i].link) # Root
       /\ Len(manifest[j].path) = 2 /\ Len(manifest[i].path) = 3

\* C19 as stated: against the server that honours ranges, from every state of
\* the download directory that earlier runs leave behind, repeated runs of
\* the program come to rename every file's marker to its target.
C19_NeverStuck ==
  <>(\A p \in DOMAIN files : files[p].fin # NoFile)

\* C19 from the states without an empty marker.
C19_NotStuckWithoutEmptyMarker ==
  (\A p \in DOMAIN files : files[p].part # <<>>)
  => <>(\A p \in DOMAIN files : files[p].fin # NoFile)

\* A run has ended and left an empty marker for a file that is not empty.
EmptyMarkerLeft ==
  /\ phase = "exit"
  /\ \E e \in 1..Len(manifest) :
       /\ tree[NodeOf(e)].size > 0
       /\ files[PathOf(e)] = [fin |-> NoFile, part |-> <<>>]

\* C20 as stated, for the fetches no exception of the network ends: a fetch
\* that got a response and, if it went on to stream, got the whole body,
\* leaves its finally block without an exception, so the invocation ends
\* normally.
C20_FinalizeNeverRaises ==
  \A e \in 1..Len(task) :
    (/\ task[e].pc = "end" /\ task[e].reqs > 0 /\ task[e].status # None
     /\ task[e].hasSize # None => task[e].pos = tree[NodeOf(e)].size)
    => ~task[e].raised

\* What the code does: every fetch that aborts on its response ends with an
\* exception raised in the finally block, and a fetch that streamed the whole
\* body into a marker of its own ends normally.
C20_AbortAlwaysRaises ==
  \A e \in 1..Len(task) :
    /\ task[e].out \in {"status", "nosize"} => task[e].raised
    /\ task[e].out = "done" /\ task[e].pos = tree[NodeOf(e)].size => ~task[e].raised

====
